---- MODULE Spec2Model ----
(***************************************************************************)
(* Model of package_addon.py: the packaging script that selects the        *)
(* project files, loads and updates the manifest template and writes the   *)
(* .ankiaddon archive.                                                     *)
(*                                                                         *)
(* Strings.  A file name is the sequence of its dot-separated pieces:      *)
(*   "a.py" = <<"a","py">>,  ".git" = <<"","git">>,  "dist" = <<"dist">>,   *)
(*   "" = <<"">>,  ".ankiaddon" = <<"","ankiaddon">>.                       *)
(* Every string corresponds to exactly one non-empty sequence of dot-free  *)
(* pieces, so suffix computations are done on the real structure of the    *)
(* name.  A path is the sequence of its names; the filesystem root "/" is  *)
(* the empty sequence.                                                     *)
(***************************************************************************)
EXTENDS Naturals, Sequences, FiniteSets

VARIABLES
    fs,              \* filesystem: absolute path -> [kind, data]
    args,            \* argparse namespace: [output, manifest, version]
    now,             \* int(time.time()) of this run
    pc,              \* position of the run inside main / package_addon
    output_path,     \* main's local output_path
    manifest_bytes,  \* bytes returned by load_manifest
    pending,         \* entries PROJECT_ROOT.rglob("*") has not yielded yet
    candidates,      \* iter_project_files' local list
    files,           \* package_addon's local list (sorted selection)
    error,           \* exception that ended the run, or NoError
    fs0              \* the filesystem when the run started

vars == <<fs, args, now, pc, output_path, manifest_bytes, pending, candidates,
          files, error, fs0>>

-----------------------------------------------------------------------------
(* Bounds of the model *)

\* largest number of project files drawn into the tree of a full run of main
MaxFiles == 3

\* largest number of project files drawn into the tree packed by package_addon
MaxTreeFiles == 3

\* largest number of keys of a template manifest object
MaxKeys == 3

\* largest timestamp the clock returns
MaxTime == 2

-----------------------------------------------------------------------------
(* Sequences *)

Front(s) == SubSeq(s, 1, Len(s) - 1)

Last(s) == s[Len(s)]

Range(s) == { s[i] : i \in 1..Len(s) }

\* the sequences over S of length at most n without repeated elements
InjSeqs(S, n) ==
    UNION { { s \in [1..k -> S] : \A i, j \in 1..k : i # j => s[i] # s[j] } :
            k \in 0..n }

-----------------------------------------------------------------------------
(* Module constants of package_addon.py *)

PROJECT_ROOT == << <<"proj">> >>

DEFAULT_OUTPUT == PROJECT_ROOT \o << <<"dist">>, <<"FieldReporter", "ankiaddon">> >>

DEFAULT_MANIFEST == PROJECT_ROOT \o << <<"manifest", "json">> >>

EXCLUDED_DIRS ==
    { <<"", "git">>, <<"", "idea">>, <<"", "mypy_cache">>, <<"", "pytest_cache">>,
      <<"", "vscode">>, <<"__pycache__">>, <<"dist">> }

EXCLUDED_FILES ==
    { <<"", "DS_Store">>, <<"manifest", "json">>, <<"package_addon", "py">> }

EXCLUDED_SUFFIXES ==
    { <<"", "ankiaddon">>, <<"", "log">>, <<"", "pyc">>, <<"", "pyo">>,
      <<"", "swp">>, <<"", "tmp">> }

\* the suffix main forces on the output path
ANKIADDON == <<"", "ankiaddon">>

\* the fixed entry name package_addon writes the manifest under
MANIFEST_ENTRY == << <<"manifest", "json">> >>

\* the empty string
EmptyStr == <<"">>

-----------------------------------------------------------------------------
(* pathlib: name, suffix, with_suffix, relative_to, resolve *)

\* Path.name: the final component, "" for the filesystem root
Name(path) == IF path = <<>> THEN EmptyStr ELSE Last(path)

\* PurePath.suffix of a name: i = name.rfind("."); name[i:] when
\* 0 < i < len(name) - 1, otherwise "".
NameSuffix(name) ==
    IF /\ Len(name) >= 2
       /\ Last(name) # ""
       /\ ~(Len(name) = 2 /\ name[1] = "")
    THEN <<"", Last(name)>>
    ELSE EmptyStr

Suffix(path) == NameSuffix(Name(path))

\* Path.parent
Parent(path) == IF path = <<>> THEN <<>> ELSE Front(path)

\* PurePath.with_suffix(suffix) for a suffix that starts with a dot; defined
\* for paths with a non-empty name (the others raise ValueError).
WithSuffix(path, suffix) ==
    LET name == Name(path)
        stem == IF NameSuffix(name) = EmptyStr THEN name ELSE Front(name)
    IN  Append(Front(path), stem \o Tail(suffix))

\* path is PROJECT_ROOT itself or lies below it
IsUnderRoot(path) ==
    /\ Len(path) >= Len(PROJECT_ROOT)
    /\ SubSeq(path, 1, Len(PROJECT_ROOT)) = PROJECT_ROOT

\* path.relative_to(PROJECT_ROOT).parts
RelativeParts(path) == SubSeq(path, Len(PROJECT_ROOT) + 1, Len(path))

\* the process's working directory and the user's home directory
CWD == PROJECT_ROOT

HOME == << <<"home">> >>

\* the names ".." and "~"
DotDot == <<"", "", "">>

Tilde == <<"~">>

\* A path given on the command line: anchor "/" for an absolute path, "."
\* for a path relative to the working directory; parts are its names.
AbsArg(parts) == [anchor |-> "/", parts |-> parts]

RelArg(parts) == [anchor |-> ".", parts |-> parts]

\* Path.expanduser(): a leading "~" of a relative path becomes the home
ExpandUser(arg) ==
    IF arg.anchor = "." /\ arg.parts # <<>> /\ Head(arg.parts) = Tilde
    THEN AbsArg(HOME \o Tail(arg.parts))
    ELSE arg

\* collapse ".." names from left to right; ".." at the root stays at the root
RECURSIVE Collapse(_, _)
Collapse(done, rest) ==
    IF rest = <<>> THEN done
    ELSE IF Head(rest) = DotDot THEN Collapse(Parent(done), Tail(rest))
    ELSE Collapse(Append(done, Head(rest)), Tail(rest))

\* Path.resolve(): absolute and normalised (the model has no symlinks)
Resolve(arg) ==
    Collapse(<<>>, (IF arg.anchor = "/" THEN <<>> ELSE CWD) \o arg.parts)

-----------------------------------------------------------------------------
(* Strings as code points: the order Python's sorted() compares keys in *)

\* the code points of a dot-free piece
Code(piece) ==
    CASE piece = "" -> <<>>
      [] piece = "a" -> <<97>>
      [] piece = "B" -> <<66>>
      [] piece = "x" -> <<120>>
      [] piece = "py" -> <<112, 121>>
      [] piece = "lib" -> <<108, 105, 98>>
      [] piece = "lib-x" -> <<108, 105, 98, 45, 120>>
      [] piece = "dist" -> <<100, 105, 115, 116>>
      [] piece = "old" -> <<111, 108, 100>>
      [] piece = "out" -> <<111, 117, 116>>
      [] piece = "git" -> <<103, 105, 116>>
      [] piece = "log" -> <<108, 111, 103>>
      [] piece = "json" -> <<106, 115, 111, 110>>
      [] piece = "tmpl" -> <<116, 109, 112, 108>>
      [] piece = "notes" -> <<110, 111, 116, 101, 115>>
      [] piece = "config" -> <<99, 111, 110, 102, 105, 103>>
      [] piece = "custom" -> <<99, 117, 115, 116, 111, 109>>
      [] piece = "pkg" -> <<112, 107, 103>>
      [] piece = "tar" -> <<116, 97, 114>>
      [] piece = "gz" -> <<103, 122>>
      [] piece = "home" -> <<104, 111, 109, 101>>
      [] piece = "manifest" -> <<109, 97, 110, 105, 102, 101, 115, 116>>
      [] piece = "ankiaddon" -> <<97, 110, 107, 105, 97, 100, 100, 111, 110>>
      [] piece = "package_addon" ->
            <<112, 97, 99, 107, 97, 103, 101, 95, 97, 100, 100, 111, 110>>
      [] piece = "FieldReporter" ->
            <<70, 105, 101, 108, 100, 82, 101, 112, 111, 114, 116, 101, 114>>
      [] piece = "__pycache__" -> <<95, 95, 112, 121, 99, 97, 99, 104, 101, 95, 95>>

\* the code points of a name: its pieces joined by "." (46)
RECURSIVE NameCode(_)
NameCode(name) ==
    IF Len(name) = 1 THEN Code(name[1])
    ELSE Code(name[1]) \o <<46>> \o NameCode(Tail(name))

\* PurePath.as_posix() of a relative path: its names joined by "/" (47)
RECURSIVE AsPosix(_)
AsPosix(rel) ==
    IF rel = <<>> THEN <<46>>
    ELSE IF Len(rel) = 1 THEN NameCode(rel[1])
    ELSE NameCode(rel[1]) \o <<47>> \o AsPosix(Tail(rel))

\* Python's str.__lt__: the first differing code point decides, a proper
\* prefix is smaller
RECURSIVE StrLess(_, _)
StrLess(s, t) ==
    IF t = <<>> THEN FALSE
    ELSE IF s = <<>> THEN TRUE
    ELSE IF Head(s) # Head(t) THEN Head(s) < Head(t)
    ELSE StrLess(Tail(s), Tail(t))

\* the sort key of iter_project_files
SortKey(path) == AsPosix(RelativeParts(path))

\* sorted(seq, key=SortKey): a stable sort, here by insertion from the left
RECURSIVE InsertSorted(_, _)
InsertSorted(sorted, item) ==
    IF sorted = <<>> THEN <<item>>
    ELSE IF StrLess(SortKey(item), SortKey(Head(sorted)))
         THEN <<item>> \o sorted
         ELSE <<Head(sorted)>> \o InsertSorted(Tail(sorted), item)

RECURSIVE Sorted(_)
Sorted(seq) ==
    IF seq = <<>> THEN <<>>
    ELSE InsertSorted(Sorted(Front(seq)), Last(seq))

-----------------------------------------------------------------------------
(* File contents and the filesystem *)

NoError == "none"

\* JSON values: a string or an integer
StrVal(s) == [t |-> "str", s |-> s, n |-> 0]

IntVal(n) == [t |-> "int", s |-> "", n |-> n]

\* a member of a JSON object; an object is the sequence of its members in
\* the order of the text (the insertion order of the dict json.loads builds)
Member(k, v) == [key |-> k, value |-> v]

Keys(obj) == { obj[i].key : i \in 1..Len(obj) }

\* obj[k] for a key of obj
Get(obj, k) == obj[CHOOSE i \in 1..Len(obj) : obj[i].key = k].value

\* file contents
NoData == [fmt |-> "none", obj |-> <<>>, entries |-> <<>>]

Text == [fmt |-> "text", obj |-> <<>>, entries |-> <<>>]

\* text that json.loads rejects
Malformed == [fmt |-> "malformed", obj |-> <<>>, entries |-> <<>>]

\* valid JSON whose top-level value is an array
JsonArray == [fmt |-> "array", obj |-> <<>>, entries |-> <<>>]

JsonObject(obj) == [fmt |-> "object", obj |-> obj, entries |-> <<>>]

\* a ZIP archive: the sequence of its entries [name, data] as written
Zip(entries) == [fmt |-> "zip", obj |-> <<>>, entries |-> entries]

Entry(name, data) == [name |-> name, data |-> data]

Dir == [kind |-> "dir", data |-> NoData]

RegularFile(data) == [kind |-> "file", data |-> data]

\* Path.exists() and Path.is_file()
Exists(f, path) == path \in DOMAIN f

IsFile(f, path) == path \in DOMAIN f /\ f[path].kind = "file"

IsDir(f, path) == path \in DOMAIN f /\ f[path].kind = "dir"

\* the proper ancestors of a path, the filesystem root included
Ancestors(path) == { SubSeq(path, 1, k) : k \in 0..(Len(path) - 1) }

\* f with path bound to entry
Put(f, path, entry) ==
    [q \in DOMAIN f \cup {path} |-> IF q = path THEN entry ELSE f[q]]

\* Path.mkdir(parents=True, exist_ok=True) fails when the path or one of
\* its ancestors exists and is not a directory
MkdirFails(f, path) ==
    \E q \in Ancestors(path) \cup {path} : IsFile(f, q)

\* the filesystem after a successful mkdir(parents=True, exist_ok=True)
Mkdir(f, path) ==
    [q \in DOMAIN f \cup Ancestors(path) \cup {path} |->
        IF q \in DOMAIN f THEN f[q] ELSE Dir]

-----------------------------------------------------------------------------
(* should_include and iter_project_files *)

\* should_include with the directory rule applied to the parent directories
\* only (relative_parts[:-1])
should_include_parent_dirs(path) ==
    LET relative_parts == RelativeParts(path)
    IN  /\ ~\E i \in 1..(Len(relative_parts) - 1) : relative_parts[i] \in EXCLUDED_DIRS
        /\ Name(path) \notin EXCLUDED_FILES
        /\ Suffix(path) \notin EXCLUDED_SUFFIXES

\* should_include without the EXCLUDED_FILES rule
should_include_no_files(path) ==
    LET relative_parts == RelativeParts(path)
    IN  /\ ~\E i \in 1..Len(relative_parts) : relative_parts[i] \in EXCLUDED_DIRS
        /\ Suffix(path) \notin EXCLUDED_SUFFIXES

should_include(path) ==
    LET relative_parts == RelativeParts(path)
    IN  IF \E i \in 1..Len(relative_parts) : relative_parts[i] \in EXCLUDED_DIRS
        THEN FALSE
        ELSE IF Name(path) \in EXCLUDED_FILES
        THEN FALSE
        ELSE IF Suffix(path) \in EXCLUDED_SUFFIXES
        THEN FALSE
        ELSE TRUE

\* what PROJECT_ROOT.rglob("*") yields: every entry below the root
RglobEntries(f) == { p \in DOMAIN f : IsUnderRoot(p) /\ p # PROJECT_ROOT }

\* iter_project_files returning the candidates in rglob order
CandidatesAsFound(cands) == cands

\* the return value of iter_project_files for the collected candidates
SortedCandidates(cands) == Sorted(cands)

-----------------------------------------------------------------------------
(* load_manifest *)

\* an optional version string: None, or a string
NoneVersion == [given |-> FALSE, s |-> ""]

Version(s) == [given |-> TRUE, s |-> s]

\* Python's truth value of `override_version`
Truthy(override_version) == override_version.given /\ override_version.s # ""

\* d.pop(k, None); d[k] = v: the key always moves to the end
DictSetMoveToEnd(obj, k, v) ==
    Append(SelectSeq(obj, LAMBDA m : m.key # k), Member(k, v))

\* d[k] = v on a dict: an existing key keeps its position, a new key is
\* appended
DictSet(obj, k, v) ==
    IF k \in Keys(obj)
    THEN [i \in 1..Len(obj) |-> IF obj[i].key = k THEN Member(k, v) ELSE obj[i]]
    ELSE Append(obj, Member(k, v))

\* load_manifest without its exists() check: read_text raises on its own
load_manifest_unchecked(f, manifest_path, override_version, t) ==
    IF ~Exists(f, manifest_path)
    THEN [error |-> "FileNotFoundError: No such file or directory", bytes |-> NoData]
    ELSE IF ~IsFile(f, manifest_path)
    THEN [error |-> "IsADirectoryError", bytes |-> NoData]
    ELSE IF f[manifest_path].data.fmt # "object"
    THEN [error |-> "JSONDecodeError", bytes |-> NoData]
    ELSE LET with_mod == DictSet(f[manifest_path].data.obj, "mod", IntVal(t))
         IN  [error |-> NoError,
              bytes |-> JsonObject(IF Truthy(override_version)
                                   THEN DictSet(with_mod, "version",
                                                StrVal(override_version.s))
                                   ELSE with_mod)]

\* load_manifest(manifest_path, override_version) on filesystem f at time t:
\* the exception raised, or the bytes returned
load_manifest(f, manifest_path, override_version, t) ==
    IF ~Exists(f, manifest_path)
    THEN [error |-> "FileNotFoundError: Manifest not found", bytes |-> NoData]
    ELSE IF ~IsFile(f, manifest_path)
    THEN [error |-> "IsADirectoryError", bytes |-> NoData]
    ELSE IF f[manifest_path].data.fmt \notin {"object", "array"}
    THEN [error |-> "JSONDecodeError", bytes |-> NoData]
    ELSE IF f[manifest_path].data.fmt = "array"
    THEN [error |-> "TypeError", bytes |-> NoData]
    ELSE LET manifest_data == f[manifest_path].data.obj
             with_mod == DictSet(manifest_data, "mod", IntVal(t))
             with_version ==
                 IF Truthy(override_version)
                 THEN DictSet(with_mod, "version", StrVal(override_version.s))
                 ELSE with_mod
         IN  [error |-> NoError, bytes |-> JsonObject(with_version)]

-----------------------------------------------------------------------------
(* main: the output path *)

\* str.lower() on the pieces the model uses
Lower(piece) == IF piece = "ANKIADDON" THEN "ankiaddon" ELSE piece

\* main comparing the suffix without regard to case
ResolveOutputIgnoringCase(arg) ==
    LET resolved == Resolve(ExpandUser(arg))
        suffix == Suffix(resolved)
    IN  IF [i \in 1..Len(suffix) |-> Lower(suffix[i])] # ANKIADDON
        THEN IF Name(resolved) = EmptyStr
             THEN [error |-> "ValueError", path |-> resolved]
             ELSE [error |-> NoError, path |-> WithSuffix(resolved, ANKIADDON)]
        ELSE [error |-> NoError, path |-> resolved]

\* main without lines 133-134: the output path as given
ResolveOutputAsGiven(arg) ==
    [error |-> NoError, path |-> Resolve(ExpandUser(arg))]

\* main, lines 132-134: the resolved output path with the suffix forced,
\* or the ValueError with_suffix raises for a path without a name
ResolveOutput(arg) ==
    LET resolved == Resolve(ExpandUser(arg))
    IN  IF Suffix(resolved) # ANKIADDON
        THEN IF Name(resolved) = EmptyStr
             THEN [error |-> "ValueError", path |-> resolved]
             ELSE [error |-> NoError, path |-> WithSuffix(resolved, ANKIADDON)]
        ELSE [error |-> NoError, path |-> resolved]

-----------------------------------------------------------------------------
(* package_addon: the archive *)

\* the entry name of the manifest: the string "manifest.json"
ManifestName == AsPosix(MANIFEST_ENTRY)

\* the entries package_addon writes: the selected files under their POSIX
\* relative paths (file_path.relative_to(PROJECT_ROOT).as_posix()), then the
\* manifest bytes under "manifest.json"; file contents are read from f
ArchiveEntries(f, selected, bytes) ==
    [i \in 1..(Len(selected) + 1) |->
        IF i <= Len(selected)
        THEN Entry(AsPosix(RelativeParts(selected[i])), f[selected[i]].data)
        ELSE Entry(ManifestName, bytes)]

-----------------------------------------------------------------------------
(* The trees and command lines the runs are drawn from *)

\* the script itself: PROJECT_ROOT is the directory that holds it
ScriptFile == << <<"package_addon", "py">> >>

\* project files (relative to the root) a full run of main may find
MainUniverse ==
    { << <<"manifest", "json">> >>,
      << <<"custom", "json">> >>,
      << <<"tmpl", "ankiaddon">> >>,
      << <<"a", "py">> >>,
      << <<"lib">>, <<"x", "py">> >>,
      << <<"lib">>, <<"out", "ankiaddon">> >> }

\* project files (relative to the root) package_addon may find
TreeUniverse ==
    { << <<"a", "py">> >>,
      << <<"B", "py">> >>,
      << <<"lib">>, <<"x", "py">> >>,
      << <<"lib-x", "py">> >>,
      << <<"", "log">> >>,
      << <<"notes", "log">> >>,
      << <<"a", "log", "py">> >>,
      << <<"lib">>, <<"manifest", "json">> >>,
      << <<"lib">>, <<"dist">> >>,
      << <<"dist">>, <<"old", "ankiaddon">> >>,
      << <<"", "git">>, <<"config">> >>,
      << <<"lib">>, <<"__pycache__">>, <<"x", "py">> >> }

\* a template as the repository ships it
SampleManifest ==
    << Member("name", StrVal("X")), Member("version", StrVal("1.0")),
       Member("mod", IntVal(0)) >>

\* the content of the project file at relative path rel; templates hold tmpl
ContentOf(rel, tmpl) ==
    IF Last(Last(rel)) = "json" \/ rel = << <<"tmpl", "ankiaddon">> >>
    THEN tmpl
    ELSE IF NameSuffix(Last(rel)) = ANKIADDON
    THEN Zip(<< Entry(ManifestName, JsonObject(SampleManifest)) >>)
    ELSE Text

\* the filesystem that holds the script and the given project files
Tree(rels, tmpl) ==
    LET all == rels \cup {ScriptFile}
        paths == { PROJECT_ROOT \o r : r \in all }
        dirs == UNION { Ancestors(p) : p \in paths }
    IN  [p \in paths \cup dirs |->
            IF p \in dirs THEN Dir
            ELSE RegularFile(ContentOf(RelativeParts(p), tmpl))]

\* values of -o/--output
Outputs ==
    { AbsArg(DEFAULT_OUTPUT),
      RelArg(<< <<"lib">>, <<"out">> >>),
      RelArg(<< <<"a", "py">> >>),
      RelArg(<< <<"a", "py">>, <<"x", "tar", "gz">> >>),
      AbsArg(PROJECT_ROOT \o << <<"tmpl", "ankiaddon">> >>),
      RelArg(<< Tilde, <<"pkg", "ANKIADDON">> >>),
      RelArg(<< <<"", "ankiaddon">> >>),
      RelArg(<< DotDot >>) }

\* values of -m/--manifest
Manifests ==
    { AbsArg(DEFAULT_MANIFEST),
      RelArg(<< <<"custom", "json">> >>),
      RelArg(<< <<"tmpl", "ankiaddon">> >>),
      RelArg(<< <<"lib">> >>) }

\* values of -v/--version
Versions == { NoneVersion, Version(""), Version("2.0") }

-----------------------------------------------------------------------------
(* The run *)

\* the manifest path main hands to load_manifest (line 136)
ManifestPath == Resolve(args.manifest)

\* a run of main from the command line, before its first statement
Init ==
    /\ \E rels \in SUBSET MainUniverse, tmpl \in {JsonObject(SampleManifest), Malformed} :
          /\ Cardinality(rels) <= MaxFiles
          /\ fs = Tree(rels, tmpl)
    /\ args \in [output : Outputs, manifest : Manifests, version : Versions]
    /\ now \in 1..MaxTime
    /\ pc = "main"
    /\ output_path = <<>>
    /\ manifest_bytes = NoData
    /\ pending = {}
    /\ candidates = <<>>
    /\ files = <<>>
    /\ error = NoError
    /\ fs0 = fs

\* the run ends with an uncaught exception
Raise(e) ==
    /\ pc' = "failed"
    /\ error' = e

\* main, lines 130-134: parse the arguments and fix the output path
MainOutput ==
    /\ pc = "main"
    /\ LET r == ResolveOutput(args.output)
       IN  IF r.error # NoError
           THEN /\ Raise(r.error)
                /\ UNCHANGED output_path
           ELSE /\ output_path' = r.path
                /\ pc' = "load_manifest"
                /\ UNCHANGED error
    /\ UNCHANGED <<fs, args, now, manifest_bytes, pending, candidates, files, fs0>>

\* main's call of a load_manifest that saves the updated manifest back to
\* the template
MainLoadManifestSaving ==
    /\ pc = "load_manifest"
    /\ LET r == load_manifest(fs, ManifestPath, args.version, now)
       IN  IF r.error # NoError
           THEN /\ Raise(r.error)
                /\ UNCHANGED <<manifest_bytes, fs>>
           ELSE /\ manifest_bytes' = r.bytes
                /\ fs' = Put(fs, ManifestPath, RegularFile(r.bytes))
                /\ pc' = "package_addon"
                /\ UNCHANGED error
    /\ UNCHANGED <<args, now, output_path, pending, candidates, files, fs0>>

\* main, line 136: load_manifest(Path(args.manifest).resolve(), args.version)
MainLoadManifest ==
    /\ pc = "load_manifest"
    /\ LET r == load_manifest(fs, ManifestPath, args.version, now)
       IN  IF r.error # NoError
           THEN /\ Raise(r.error)
                /\ UNCHANGED manifest_bytes
           ELSE /\ manifest_bytes' = r.bytes
                /\ pc' = "package_addon"
                /\ UNCHANGED error
    /\ UNCHANGED <<fs, args, now, output_path, pending, candidates, files, fs0>>

\* package_addon calls iter_project_files: candidates = [], rglob starts
IterBegin ==
    /\ pc = "package_addon"
    /\ pending' = RglobEntries(fs)
    /\ candidates' = <<>>
    /\ pc' = "rglob"
    /\ UNCHANGED <<fs, args, now, output_path, manifest_bytes, files, error, fs0>>

\* one iteration of the loop of iter_project_files; rglob yields the
\* entries in an order the filesystem decides
IterStep ==
    /\ pc = "rglob"
    /\ \E path \in pending :
          /\ pending' = pending \ {path}
          /\ candidates' =
                IF IsFile(fs, path) /\ should_include(path)
                THEN Append(candidates, path)
                ELSE candidates
    /\ UNCHANGED <<fs, args, now, pc, output_path, manifest_bytes, files, error, fs0>>

\* iter_project_files returns the sorted candidates to package_addon
IterReturn ==
    /\ pc = "rglob"
    /\ pending = {}
    /\ files' = SortedCandidates(candidates)
    /\ pc' = "mkdir"
    /\ UNCHANGED <<fs, args, now, output_path, manifest_bytes, pending, candidates,
                   error, fs0>>

\* package_addon, line 92: output_path.parent.mkdir(parents=True, exist_ok=True)
PackageMkdir ==
    /\ pc = "mkdir"
    /\ IF MkdirFails(fs, Parent(output_path))
       THEN /\ Raise("FileExistsError")
            /\ UNCHANGED fs
       ELSE /\ fs' = Mkdir(fs, Parent(output_path))
            /\ pc' = "write"
            /\ UNCHANGED error
    /\ UNCHANGED <<args, now, output_path, manifest_bytes, pending, candidates, files, fs0>>

\* package_addon, lines 94-102: open the archive for writing (truncating
\* what is there), write the files and the manifest, close; main prints
PackageWrite ==
    /\ pc = "write"
    /\ IF IsDir(fs, output_path)
       THEN /\ Raise("IsADirectoryError")
            /\ UNCHANGED fs
       ELSE LET opened == Put(fs, output_path, RegularFile(Zip(<<>>)))
            IN  /\ fs' = Put(fs, output_path,
                             RegularFile(Zip(ArchiveEntries(opened, files, manifest_bytes))))
                /\ pc' = "done"
                /\ UNCHANGED error
    /\ UNCHANGED <<args, now, output_path, manifest_bytes, pending, candidates, files, fs0>>

Next ==
    \/ MainOutput
    \/ MainLoadManifest
    \/ IterBegin
    \/ IterStep
    \/ IterReturn
    \/ PackageMkdir
    \/ PackageWrite

Spec == Init /\ [][Next]_vars

-----------------------------------------------------------------------------
(* package_addon alone, over larger trees *)

\* main with the default command line has loaded the manifest and is about
\* to call package_addon
InitPackage ==
    /\ \E rels \in SUBSET TreeUniverse :
          /\ Cardinality(rels) <= MaxTreeFiles
          /\ fs = Tree(rels \cup {RelativeParts(DEFAULT_MANIFEST)},
                       JsonObject(SampleManifest))
    /\ args = [output |-> AbsArg(DEFAULT_OUTPUT), manifest |-> AbsArg(DEFAULT_MANIFEST),
               version |-> NoneVersion]
    /\ now = 1
    /\ pc = "package_addon"
    /\ output_path = ResolveOutput(args.output).path
    /\ manifest_bytes = load_manifest(fs, ManifestPath, args.version, now).bytes
    /\ pending = {}
    /\ candidates = <<>>
    /\ files = <<>>
    /\ error = NoError
    /\ fs0 = fs

NextPackage ==
    \/ IterBegin
    \/ IterStep
    \/ IterReturn
    \/ PackageMkdir
    \/ PackageWrite

SpecPackage == InitPackage /\ [][NextPackage]_vars

-----------------------------------------------------------------------------
(* load_manifest alone, over many templates *)

\* members a template may hold
TemplateMembers ==
    { Member("name", StrVal("X")),
      Member("version", StrVal("1.0")),
      Member("version", StrVal("")),
      Member("mod", IntVal(0)),
      Member("mod", StrVal("old")),
      Member("homepage", StrVal("h")) }

\* template objects: at most MaxKeys members, no key twice
TemplateObjects ==
    { obj \in InjSeqs(TemplateMembers, MaxKeys) : Cardinality(Keys(obj)) = Len(obj) }

\* main has fixed the output path and is about to call load_manifest on the
\* default manifest path, which holds some template or nothing
InitManifest ==
    /\ \/ fs = Tree({}, Text)
       \/ \E data \in {Malformed, JsonArray} \cup { JsonObject(o) : o \in TemplateObjects } :
             fs = Tree({RelativeParts(DEFAULT_MANIFEST)}, data)
    /\ args \in [output : {AbsArg(DEFAULT_OUTPUT)}, manifest : {AbsArg(DEFAULT_MANIFEST)},
                  version : Versions]
    /\ now \in 1..MaxTime
    /\ pc = "load_manifest"
    /\ output_path = ResolveOutput(args.output).path
    /\ manifest_bytes = NoData
    /\ pending = {}
    /\ candidates = <<>>
    /\ files = <<>>
    /\ error = NoError
    /\ fs0 = fs

NextManifest == MainLoadManifest

SpecManifest == InitManifest /\ [][NextManifest]_vars

-----------------------------------------------------------------------------
(* Vocabulary of the properties *)

\* the error load_manifest raises for a manifest path that does not exist
ManifestNotFound == "FileNotFoundError: Manifest not found"

\* load_manifest has returned
Loaded == manifest_bytes # NoData

\* the template object the run started from
Template == fs0[ManifestPath].data.obj

\* the manifest object load_manifest returned
Updated == manifest_bytes.obj

\* the entries of the archive a finished run has written
Archive == fs[output_path].data.entries

\* the output path as given on the command line, resolved, before main
\* touches its suffix
GivenOutput == Resolve(ExpandUser(args.output))

\* the string of the path ends with ".ankiaddon"
EndsWithAnkiaddon(path) ==
    /\ path # <<>>
    /\ Len(Last(path)) >= 2
    /\ Last(Last(path)) = "ankiaddon"

\* s < t in the order of code points, stated without recursion: at the
\* first position where they differ s ends or holds the smaller code point
LexLess(s, t) ==
    \E k \in 1..Len(t) :
        /\ k <= Len(s) + 1
        /\ \A i \in 1..(k - 1) : s[i] = t[i]
        /\ (k = Len(s) + 1 \/ s[k] < t[k])

\* the regular files of filesystem f below the root that no exclusion rule
\* rejects
SelectedIn(f) ==
    { p \in DOMAIN f :
        /\ f[p].kind = "file"
        /\ IsUnderRoot(p) /\ p # PROJECT_ROOT
        /\ Range(RelativeParts(p)) \cap EXCLUDED_DIRS = {}
        /\ Last(p) \notin EXCLUDED_FILES
        /\ NameSuffix(Last(p)) \notin EXCLUDED_SUFFIXES }

\* the same on the tree the run started from
SelectedFiles == SelectedIn(fs0)

-----------------------------------------------------------------------------
(* C1 *)

\* C1 as stated: whenever the manifest path does not name an existing file,
\* the run never enters package_addon, changes nothing on disk, and the
\* error it fails with is the missing-manifest error.
C1_AnyNonFileIsMissingManifest ==
    ~IsFile(fs0, ManifestPath) =>
        /\ pc \in {"main", "load_manifest", "failed"}
        /\ fs = fs0
        /\ (pc = "failed" => error = ManifestNotFound)

\* C1, amended: whenever the manifest path does not name an existing regular
\* file the run fails before package_addon is entered: nothing is selected
\* and nothing on disk is created or changed (no archive, no parent
\* directory).  The error is the missing-manifest error whenever the manifest
\* path does not exist at all and main got as far as load_manifest (the
\* output path was not rejected with ValueError before); a manifest path that
\* names a directory fails with IsADirectoryError instead.
C1_MissingManifest ==
    /\ ~IsFile(fs0, ManifestPath) =>
          /\ pc \in {"main", "load_manifest", "failed"}
          /\ fs = fs0
          /\ pending = {} /\ candidates = <<>> /\ files = <<>>
          /\ manifest_bytes = NoData
          /\ (pc = "failed" =>
                error \in {"ValueError", ManifestNotFound, "IsADirectoryError"})
    /\ (/\ ~Exists(fs0, ManifestPath)
        /\ pc = "failed"
        /\ ResolveOutput(args.output).error = NoError) => error = ManifestNotFound
    /\ (/\ IsDir(fs0, ManifestPath)
        /\ pc = "failed"
        /\ ResolveOutput(args.output).error = NoError) => error = "IsADirectoryError"

\* a run that failed on a missing manifest, its output directory still absent
C1_Witness ==
    /\ pc = "failed"
    /\ error = ManifestNotFound
    /\ ~Exists(fs0, ManifestPath)
    /\ output_path = DEFAULT_OUTPUT
    /\ ~Exists(fs, Parent(output_path))
    /\ ~Exists(fs, output_path)

-----------------------------------------------------------------------------
(* C2 *)

\* C2 as stated: the returned manifest has `version` equal to the override
\* whenever one was supplied (any string, the empty one included), and equal
\* to the template's `version` (present or absent alike) when none was.
C2_VersionIsOverrideOrTemplate ==
    Loaded =>
        IF args.version.given
        THEN /\ "version" \in Keys(Updated)
             /\ Get(Updated, "version") = StrVal(args.version.s)
        ELSE /\ ("version" \in Keys(Updated)) = ("version" \in Keys(Template))
             /\ "version" \in Keys(Template) =>
                    Get(Updated, "version") = Get(Template, "version")

-----------------------------------------------------------------------------
(* C3 *)

\* C3 as stated: whatever manifest path -m names, a finished run's archive
\* holds no project-file entry for the manifest template (the entries before
\* the final manifest entry never carry the template's relative path).
C3_TemplateNeverPacked ==
    (pc = "done" /\ IsUnderRoot(ManifestPath)) =>
        \A i \in 1..(Len(Archive) - 1) :
            Archive[i].name # AsPosix(RelativeParts(ManifestPath))

-----------------------------------------------------------------------------
(* C4 *)

\* C4 as stated: for every manifest path and output path, at every point of
\* the run the template file holds what it held when the run started.
C4_TemplateNeverModified ==
    IsFile(fs0, ManifestPath) =>
        /\ IsFile(fs, ManifestPath)
        /\ fs[ManifestPath].data = fs0[ManifestPath].data

\* C4, amended: in every run whose resolved output path (suffix forced) is
\* not the manifest path itself, successful or failed, the template file
\* holds at every point what it held when the run started; when the two are
\* the same file, a run that reaches the archive write replaces the template
\* by the archive.
C4_TemplateKeptUnlessOutput ==
    IsFile(fs0, ManifestPath) =>
        IF \/ ResolveOutput(args.output).error # NoError
           \/ ResolveOutput(args.output).path # ManifestPath
        THEN /\ IsFile(fs, ManifestPath)
             /\ fs[ManifestPath].data = fs0[ManifestPath].data
        ELSE /\ IsFile(fs, ManifestPath)
             /\ pc # "done" => fs[ManifestPath].data = fs0[ManifestPath].data
             /\ pc = "done" => fs[ManifestPath].data.fmt = "zip"

\* a finished run that wrote its archive next to the template it read
C4_Witness ==
    /\ pc = "done"
    /\ IsFile(fs0, ManifestPath)
    /\ output_path # ManifestPath
    /\ Parent(output_path) = Parent(ManifestPath)
    /\ fs[output_path].data.fmt = "zip"

-----------------------------------------------------------------------------
(* C5 *)

\* C5: once iter_project_files has returned, its result holds exactly the
\* regular files below the root that no exclusion rule rejects (no segment
\* of the relative path, the file's own name included, in EXCLUDED_DIRS; the
\* basename not in EXCLUDED_FILES; the suffix not in EXCLUDED_SUFFIXES),
\* each once, and no directory.
C5_ExactSelection ==
    pc \in {"mkdir", "write", "done"} =>
        /\ Range(files) = SelectedFiles
        /\ Len(files) = Cardinality(SelectedFiles)
        /\ \A i \in 1..Len(files) : fs0[files[i]].kind = "file"

\* a selection over a tree with a regular file named like an excluded
\* directory, an excluded basename below the root level and a dot-file whose
\* name looks like an excluded suffix
C5_Witness ==
    /\ pc = "mkdir"
    /\ IsFile(fs0, PROJECT_ROOT \o << <<"lib">>, <<"dist">> >>)
    /\ IsFile(fs0, PROJECT_ROOT \o << <<"lib">>, <<"manifest", "json">> >>)
    /\ files = << PROJECT_ROOT \o << <<"", "log">> >> >>

-----------------------------------------------------------------------------
(* C6 *)

\* C6: the archive a finished run has written holds, for every order in
\* which rglob yielded the entries, one entry per selected file of the tree,
\* under its POSIX relative path and with the file's content, in strictly
\* ascending order of the path strings, and then the manifest bytes under
\* "manifest.json" as the last entry; the non-manifest entries are therefore
\* a function of the tree alone, and the tree the run leaves behind has the
\* same selected files, so a second run writes the same non-manifest entries.
C6_SortedThenManifest ==
    pc = "done" =>
        LET n == Len(Archive) - 1
        IN  /\ n = Cardinality(SelectedFiles)
            /\ Archive[n + 1] = Entry(ManifestName, manifest_bytes)
            /\ \A i, j \in 1..n : i < j => LexLess(Archive[i].name, Archive[j].name)
            /\ \A p \in SelectedFiles :
                   \E i \in 1..n :
                      Archive[i] = Entry(AsPosix(RelativeParts(p)), fs0[p].data)
            /\ SelectedIn(fs) = SelectedFiles
            /\ \A p \in SelectedFiles : fs[p] = fs0[p]

\* a finished run over three selected files that rglob yielded in another
\* order than the sorted one
C6_Witness ==
    /\ pc = "done"
    /\ candidates # files
    /\ files = << PROJECT_ROOT \o << <<"B", "py">> >>,
                  PROJECT_ROOT \o << <<"lib-x", "py">> >>,
                  PROJECT_ROOT \o << <<"lib">>, <<"x", "py">> >> >>
    /\ Len(Archive) = Len(files) + 1

-----------------------------------------------------------------------------
(* C7 *)

\* C7 as stated: for every output path whose extension is not .ankiaddon,
\* main does not fail on the path and the output path it goes on with ends
\* with ".ankiaddon"; a path that has the extension is left unchanged.
C7_EveryPathGetsSuffix ==
    pc # "main" =>
        IF Suffix(GivenOutput) # ANKIADDON
        THEN error # "ValueError" /\ EndsWithAnkiaddon(output_path)
        ELSE output_path = GivenOutput

\* C7, amended: for every output path that has a final component (every path
\* but the filesystem root) and whose extension is not .ankiaddon, main does
\* not fail on the path and the output path it goes on with is the given
\* path with the extension replaced (or added): same directory, ending with
\* ".ankiaddon"; a path that has the extension is left unchanged; for the
\* filesystem root main fails with ValueError.
C7_SuffixForced ==
    pc # "main" =>
        /\ (Suffix(GivenOutput) # ANKIADDON /\ GivenOutput # <<>>) =>
              /\ error # "ValueError"
              /\ EndsWithAnkiaddon(output_path)
              /\ Suffix(output_path) = ANKIADDON
              /\ Parent(output_path) = Parent(GivenOutput)
        /\ Suffix(GivenOutput) = ANKIADDON =>
              /\ error # "ValueError"
              /\ output_path = GivenOutput
        /\ GivenOutput = <<>> => (pc = "failed" /\ error = "ValueError")

\* a finished run whose output path was given with the extension in capitals
C7_Witness ==
    /\ pc = "done"
    /\ Suffix(GivenOutput) = <<"", "ANKIADDON">>
    /\ output_path = HOME \o << <<"pkg", "ankiaddon">> >>
    /\ IsFile(fs, output_path)

-----------------------------------------------------------------------------
(* C8 *)

\* C8: the object load_manifest returns has the template's members in the
\* template's order, each with its value, except that `mod` holds the run's
\* integer timestamp and `version` holds the override when one is applied; a
\* `mod` or `version` the template lacks is appended (mod first); no key is
\* removed and none occurs twice.
C8_OnlyModAndVersion ==
    Loaded =>
        LET n == Len(Template)
            applied == Truthy(args.version)
            added == (IF "mod" \in Keys(Template) THEN <<>> ELSE <<"mod">>)
                     \o (IF applied /\ "version" \notin Keys(Template)
                         THEN <<"version">> ELSE <<>>)
        IN  /\ Len(Updated) = n + Len(added)
            /\ \A i \in 1..n :
                   /\ Updated[i].key = Template[i].key
                   /\ Template[i].key \notin {"mod", "version"} =>
                         Updated[i] = Template[i]
                   /\ (Template[i].key = "version" /\ ~applied) =>
                         Updated[i] = Template[i]
            /\ \A i \in 1..Len(added) : Updated[n + i].key = added[i]
            /\ Get(Updated, "mod") = IntVal(now)
            /\ applied => Get(Updated, "version") = StrVal(args.version.s)

\* a template of three members that starts with `mod` and has no `version`,
\* loaded with a version override
C8_Witness ==
    /\ Loaded
    /\ Len(Template) = 3
    /\ Template[1].key = "mod"
    /\ "version" \notin Keys(Template)
    /\ Truthy(args.version)
    /\ Len(Updated) = 4

-----------------------------------------------------------------------------
(* C9 *)

\* C9: in the archive a finished run has written no two entries have the
\* same name, and exactly one entry is named "manifest.json": the last one,
\* which holds the bytes load_manifest returned.
C9_DistinctNames ==
    pc = "done" =>
        /\ \A i, j \in 1..Len(Archive) : i # j => Archive[i].name # Archive[j].name
        /\ { i \in 1..Len(Archive) : Archive[i].name = ManifestName } = {Len(Archive)}
        /\ Archive[Len(Archive)].data = manifest_bytes

\* a finished run over a tree that holds manifest.json at the root and at
\* least two selected files
C9_Witness ==
    /\ pc = "done"
    /\ IsFile(fs0, DEFAULT_MANIFEST)
    /\ ManifestPath = DEFAULT_MANIFEST
    /\ Len(files) >= 2
    /\ Len(Archive) = Len(files) + 1

-----------------------------------------------------------------------------
(* C10 *)

\* C10: at every point of every run the file at the output path main goes on
\* with is neither among the candidates collected nor among the files
\* package_addon writes, and the finished archive has no project-file entry
\* under the output path's own relative path.
C10_OutputNeverSelected ==
    /\ output_path \notin Range(candidates) \cup Range(files)
    /\ (pc = "done" /\ IsUnderRoot(output_path)) =>
          \A i \in 1..(Len(Archive) - 1) :
              Archive[i].name # AsPosix(RelativeParts(output_path))

\* a finished run that wrote over an archive an earlier run had left inside
\* a directory of the project that is not excluded, next to a selected file
C10_Witness ==
    /\ pc = "done"
    /\ IsFile(fs0, output_path)
    /\ fs0[output_path].data.fmt = "zip"
    /\ IsUnderRoot(output_path)
    /\ Range(RelativeParts(output_path)) \cap EXCLUDED_DIRS = {}
    /\ Parent(output_path) \in { Parent(files[i]) : i \in 1..Len(files) }

====
